---- MODULE Spec2Model ----
(***************************************************************************)
(* Model of eventhandler/baseclass.py: the Runner's decide-and-execute     *)
(* pipeline (EventhandlerRunner.handle and what it calls), the             *)
(* DecidedEvent value object, and the SIGALRM-based timeout decorator.     *)
(*                                                                         *)
(* Text is modelled as a sequence of tokens (a token is a piece of text    *)
(* that is never split); concatenation is \o, the empty string is <<>>.    *)
(* Strings whose characters matter (digit strings) have one token per      *)
(* character.                                                              *)
(***************************************************************************)
EXTENDS Integers, Sequences, FiniteSets, TLC

\* ------------------------------------------------------------------ bounds
\* Number of handle() calls on one Runner.
MaxHandles == 2
\* Number of DecidedEvent operations one decider performs before it ends.
MaxDeciderOps == 3
\* Largest exit code of a command.
MaxExit == 2
\* Number of timeout-wrapped calls made.
MaxCalls == 3
\* Depth to which timeout-wrapped functions call one another.
MaxDepth == 2
\* Longest deadline, in seconds, of a wrapped call or of the alarm the
\* application had pending.
MaxSeconds == 2

\* ------------------------------------------------------- Python values
\* A Python value: None, a str, an int, a bool or a bytes object.
PyNone == [t |-> "none", s |-> <<>>, n |-> 0]
PyStr(s) == [t |-> "str", s |-> s, n |-> 0]
PyInt(n) == [t |-> "int", s |-> <<>>, n |-> n]
PyBool(b) == [t |-> "bool", s |-> <<>>, n |-> IF b THEN 1 ELSE 0]
PyBytes(s) == [t |-> "bytes", s |-> s, n |-> 0]
\* The marker of a key a mapping (or an object's __dict__) does not hold.
Absent == [t |-> "absent", s |-> <<>>, n |-> 0]

\* bool(v): None, empty text and zero are false.
Truthy(v) ==
  CASE v.t = "none" -> FALSE
    [] v.t \in {"str", "bytes"} -> Len(v.s) > 0
    [] OTHER -> v.n # 0

Digits == <<"0", "1", "2", "3", "4", "5", "6", "7", "8", "9">>
DigitSet == {Digits[i] : i \in 1..10}
DigitValue(c) == (CHOOSE i \in 1..10 : Digits[i] = c) - 1

\* str(n) of a non-negative int.
RECURSIVE NatText(_)
NatText(n) == IF n < 10 THEN <<Digits[n + 1]>> ELSE NatText(n \div 10) \o <<Digits[(n % 10) + 1]>>
IntText(n) == IF n < 0 THEN <<"-">> \o NatText(0 - n) ELSE NatText(n)

\* "{}".format(v)
Format(v) ==
  CASE v.t = "none" -> <<"None">>
    [] v.t = "str" -> v.s
    [] v.t = "int" -> IntText(v.n)
    [] v.t = "bool" -> IF v.n = 1 THEN <<"True">> ELSE <<"False">>
    [] v.t = "bytes" -> <<"b'">> \o v.s \o <<"'">>
    [] OTHER -> <<>>

\* repr(v), as str(dict) shows a value.
Repr(v) == IF v.t = "str" THEN <<"'">> \o v.s \o <<"'">> ELSE Format(v)

\* whether text part occurs in text whole (Python's `part in whole`).
Contains(whole, part) ==
  \E i \in 0..(Len(whole) - Len(part)) :
    \A j \in 1..Len(part) : whole[i + j] = part[j]

\* ------------------------------------------------------------ raw events
\* The keys of a raw event, in the order str(dict) lists them: the caller's
\* keys, then the keys decide_and_prepare_event adds.
EventKeys == <<"state", "output", "omd_site", "omd_originating_host", "omd_originating_fqdn", "omd_originating_timestamp">>
EventKeySet == {EventKeys[i] : i \in 1..Len(EventKeys)}
NoEvent == [k \in EventKeySet |-> Absent]

\* What the caller hands to handle().
RawEvents ==
  { [NoEvent EXCEPT !["state"] = PyStr(<<"2">>), !["output"] = PyStr(<<"CRIT">>)],
    [NoEvent EXCEPT !["state"] = PyStr(<<"0", "7">>), !["omd_site"] = PyStr(<<"prod">>)],
    [NoEvent EXCEPT !["state"] = PyInt(1), !["output"] = PyStr(<<>>)] }

RECURSIVE DictItems(_, _)
DictItems(d, i) ==
  IF i > Len(EventKeys) THEN <<>>
  ELSE IF d[EventKeys[i]] = Absent THEN DictItems(d, i + 1)
  ELSE LET rest == DictItems(d, i + 1)
           item == <<"'", EventKeys[i], "'", ": ">> \o Repr(d[EventKeys[i]])
       IN IF rest = <<>> THEN item ELSE item \o <<", ">> \o rest
\* str(raw_event)
StrOfDict(d) == <<"{">> \o DictItems(d, 1) \o <<"}">>

\* str.isdigit() for the strings of the model (non-empty, digits only).
IsDigit(s) == Len(s) > 0 /\ \A i \in 1..Len(s) : s[i] \in DigitSet
\* Faulty variant of int(s): the first digit alone is read.
IntOfFirstDigit(s) == DigitValue(s[1])
\* int(s) of a digit string.
RECURSIVE IntOf(_)
IntOf(s) == IF Len(s) = 0 THEN 0 ELSE 10 * IntOf(SubSeq(s, 1, Len(s) - 1)) + DigitValue(s[Len(s)])
\* DecidedEvent.__init__'s loop: digit strings become ints, in place.
Normalize(d) ==
  [k \in EventKeySet |->
     IF d[k].t = "str" /\ IsDigit(d[k].s) THEN PyInt(IntOf(d[k].s)) ELSE d[k]]

\* decide_and_prepare_event's additions to the raw event.
EnvSite == PyStr(<<"site1">>)
EnvHost == PyStr(<<"host1">>)
EnvFqdn == PyStr(<<"host1.example">>)
EnvTime == PyInt(17)
AddEnvironment(d) ==
  [d EXCEPT !["omd_site"] = IF d["omd_site"] = Absent THEN EnvSite ELSE @,
            !["omd_originating_host"] = EnvHost,
            !["omd_originating_fqdn"] = EnvFqdn,
            !["omd_originating_timestamp"] = EnvTime]

\* ------------------------------------------------------ Runner attributes
\* The names a payload key or a Runner attribute may have.
AttrKeys == {"baseclass_logs_summary", "contact", "run", "colour"}
\* Names the Runner's class defines (methods): hasattr finds them although
\* the instance's __dict__ does not hold them.
ClassAttrs == {"run"}
NoAttrs == [k \in AttrKeys |-> Absent]
\* The runneropts a Runner may be constructed with.
RunnerOpts ==
  { NoAttrs,
    [NoAttrs EXCEPT !["contact"] = PyStr(<<"default">>)] }

\* EventhandlerRunner.__init__
NewRunner(opts) ==
  [k \in AttrKeys |->
     IF opts[k] # Absent THEN opts[k]
     ELSE IF k = "baseclass_logs_summary" THEN PyBool(TRUE)
     ELSE Absent]

\* hasattr(self, k)
HasAttr(a, k) == a[k] # Absent \/ k \in ClassAttrs
\* The attribute names of a Runner.
AttrNames(a) == {k \in AttrKeys : HasAttr(a, k)}

\* Faulty variant of overwrite_attributes: every payload key is set.
OverwriteAttributesAddsKeys(a, payload) ==
  [k \in AttrKeys |-> IF payload[k] # Absent THEN payload[k] ELSE a[k]]
\* overwrite_attributes: only keys that already name an attribute are set.
OverwriteAttributes(a, payload) ==
  [k \in AttrKeys |->
     IF payload[k] # Absent /\ HasAttr(a, k) THEN payload[k] ELSE a[k]]

\* no_more_logging
NoMoreLogging(a) == [a EXCEPT !["baseclass_logs_summary"] = PyBool(FALSE)]

\* ---------------------------------------------------------- DecidedEvent
\* A payload is None or a mapping.
NonePayload == [none |-> TRUE, m |-> NoAttrs]
DictPayload(m) == [none |-> FALSE, m |-> m]
\* The payloads a decider may set.
Payloads ==
  { NonePayload,
    DictPayload(NoAttrs),
    DictPayload([NoAttrs EXCEPT !["contact"] = PyStr(<<"oncall">>)]),
    DictPayload([NoAttrs EXCEPT !["contact"] = PyStr(<<"oncall">>), !["colour"] = PyStr(<<"red">>)]),
    DictPayload([NoAttrs EXCEPT !["baseclass_logs_summary"] = PyBool(TRUE)]),
    DictPayload([NoAttrs EXCEPT !["run"] = PyStr(<<"notify.sh">>)]) }
\* The summaries a decider may set.
Summaries == {PyNone, PyStr(<<>>), PyStr(<<"CPU CRIT -> paging oncall">>)}

\* DecidedEvent.__init__ (after the normalization of the raw event);
\* _runneropts starts as the empty mapping, _is_heartbeat is not set.
NewDecidedEvent(eventopts) ==
  [eventopts |-> eventopts,
   payload |-> NonePayload,
   summary |-> PyStr(StrOfDict(eventopts)),
   runneropts |-> NoAttrs,
   heartbeat |-> Absent,
   discarded |-> FALSE,
   silently |-> TRUE]

\* Faulty variant of is_complete: the payload is not looked at.
IsCompleteSummaryOnly(e) == e.summary # PyNone
\* Faulty variant of is_complete: the summary is not looked at.
IsCompletePayloadOnly(e) == ~e.payload.none
\* DecidedEvent.is_complete
IsComplete(e) == ~(e.payload.none \/ e.summary = PyNone)

\* Faulty variant of discard: a second call takes the discard back.
DiscardToggles(e, silently) ==
  [e EXCEPT !.discarded = ~e.discarded, !.silently = IF silently THEN TRUE ELSE FALSE]
\* Faulty variant of discard: the flag is inverted.
DiscardInverted(e, silently) ==
  [e EXCEPT !.discarded = TRUE, !.silently = ~silently]
\* DecidedEvent.discard
Discard(e, silently) ==
  [e EXCEPT !.discarded = TRUE, !.silently = IF silently THEN TRUE ELSE FALSE]

\* ------------------------------------------------------------- log lines
Line(level, msg) == [level |-> level, msg |-> msg]
Count(lines, level) == Cardinality({i \in 1..Len(lines) : lines[i].level = level})

\* The decider's class name and module file, as line 136 prints them.
DeciderId == <<"ExampleDecider", "@", "/eventhandler/example/decider.py">>
DeciderName == <<"example">>
\* str(e) of the AttributeError raised by None.__module_file__ (line 136).
NoModuleFileError == <<"'NoneType' object has no attribute '__module_file__'">>
\* str(e) of the TypeError raised by calling a str (self.run overlaid).
NotCallableError == <<"'str' object is not callable">>
\* str(e) of the Exception of line 176.
NoCommandError == <<"runner did not return a command">>

\* new_decider's except branches (lines 114-119).
NewDeciderLines(outcome) ==
  CASE outcome = "ImportError" ->
         <<Line("CRITICAL", <<"found no decider module ">> \o DeciderName)>>
    [] outcome = "Exception" ->
         <<Line("CRITICAL", <<"unknown error error in decider instantiation: ">> \o <<"init failed">>)>>
    [] OTHER -> <<>>

\* decide_and_prepare_event's except branch (line 136), the decider known.
DecideErrorLines(r, msg) ==
  <<Line("CRITICAL",
         <<"when deciding based on this ">> \o StrOfDict(r) \o <<" with this ">>
           \o DeciderId \o <<" there was an error <">> \o msg \o <<">">>)>>

\* Faulty variant of handle's except branch: it logs whether or not
\* decided_event is bound.
HandleErrorLinesAlways(bound, r, msg) ==
  <<Line("CRITICAL", <<"raw event ">> \o StrOfDict(r) \o <<" caused error ">> \o msg)>>
\* handle's except branch (lines 151-155): a line only when the local
\* decided_event was never assigned.
HandleErrorLines(bound, r, msg) ==
  IF bound = "unbound"
  THEN <<Line("CRITICAL", <<"raw event ">> \o StrOfDict(r) \o <<" caused error ">> \o msg)>>
  ELSE <<>>

\* Faulty variant of lines 144-145: no fallback to the raw event.
DiscardSummaryNoFallback(e, r) == e.summary
\* The summary a non-silent discard reports (lines 144-145).
DiscardSummary(e, r) == IF ~Truthy(e.summary) THEN PyStr(StrOfDict(r)) ELSE e.summary

\* handle's discard branch (lines 143-146).
DiscardLines(e, r) ==
  IF ~e.silently
  THEN <<Line("INFO", <<"discarded: ">> \o Format(DiscardSummary(e, r)))>>
  ELSE <<>>

\* Faulty variant of line 147: the discarded event is kept.
AfterDiscardKept == "event"
\* What handle's local decided_event is after the discard branch (line 147).
AfterDiscard == "none"

\* Faulty variant of line 150: the incomplete event is kept.
AfterIncompleteKept == "event"
\* What handle's local decided_event is after the incomplete branch (line 150).
AfterIncomplete == "none"

\* handle's incomplete branch (line 149).
IncompleteLines ==
  <<Line("CRITICAL", <<"a decided event ", "DecidedEvent", " must have the attributes payload and summary">>)>>

\* `x if x else ""`
OrEmpty(v) == IF Truthy(v) THEN v ELSE PyStr(<<>>)

\* Faulty variant of line 181: output on stderr counts as failure.
CommandSuccessQuietOnly(code, err) == code = 0 /\ ~Truthy(err)
\* success of a command that ran (line 181).
CommandSuccess(code, err) == code = 0

\* run_decided's report (lines 186-198): the lines logged.
ReportLines(ok, flag, out, err, code, exc, summ) ==
  IF ok
  THEN IF Truthy(flag)
       THEN <<Line("INFO", Format(summ)),
              Line("DEBUG", <<"stdout ">> \o Format(OrEmpty(out)) \o <<", stderr ">> \o Format(OrEmpty(err)))>>
       ELSE <<>>
  ELSE IF Truthy(err)
       THEN <<Line("CRITICAL",
                   <<"run failed: stdout ">> \o Format(OrEmpty(out)) \o <<", stderr ">>
                     \o Format(OrEmpty(err)) \o <<", event ">> \o Format(summ))>>
       ELSE IF Truthy(exc)
       THEN <<Line("CRITICAL",
                   <<"run failed: exception <">> \o Format(exc) \o <<">, event was <">>
                     \o Format(summ) \o <<">">>)>>
       ELSE IF Truthy(flag)
       THEN <<Line("CRITICAL",
                   <<"run failed: stdout ">> \o Format(OrEmpty(out)) \o <<", stderr ">>
                     \o Format(OrEmpty(err)) \o <<", exitcode ">> \o Format(PyInt(code))
                     \o <<", event ">> \o Format(summ))>>
       ELSE <<>>

\* ----------------------------------------------------------------- state
VARIABLES
  pc,           \* where the Runner is: "idle" or a step of handle
  handles,      \* number of handle calls started
  attrs,        \* the Runner's __dict__
  attrsBefore,  \* attrs when the current handle call started
  rawIn,        \* the raw event as the caller handed it to handle
  raw,          \* the raw event (the caller's dict, changed in place)
  instance,     \* new_decider's result: "unset", "ok" or "none"
  ev,           \* the DecidedEvent of the current call
  decided,      \* handle's local decided_event: "unbound", "none", "event"
  ops,          \* operations the decider performed on the event
  lastDiscard,  \* the decider's last discard call: "no", "silent", "loud"
  deciderEnd,   \* "no", "returned" or "raised"
  summaryDecided, \* event.summary when the decider ended
  errText,      \* str(e) of the exception the decider raised
  log,          \* the lines logged during the current handle call
  overlaid,     \* overwrite_attributes was called in the current call
  runCalls,     \* calls of run() in the current call
  launched,     \* commands launched (Popen) in the current call
  stdout, stderr, exit_code, \* run_decided's locals
  excMsg,       \* run_decided's decide_exception_msg
  success,      \* run_decided's success: "unset", "true", "false"
  ret,          \* run_decided's return value: "unset", "true", "false"
  flagAtReport, \* baseclass_logs_summary when run_decided reported
  suppressed,   \* no_more_logging was called on this Runner
  escaped,      \* an exception left handle
  sigHandler,   \* the process's SIGALRM handler
  alarmLeft,    \* seconds until SIGALRM is raised; 0: no alarm pending
  alarmBy,      \* the wrapped call that set the pending alarm; 0: none of them
  stack,        \* the active timeout wrappers, innermost last
  calls,        \* number of wrapped calls started
  last,         \* the frame of the wrapped call that ended last
  stray,        \* a RunnerTimeoutError was raised outside every wrapper
  prevRuns,     \* runs of the handler the application had installed
  killed,       \* the process was terminated by SIGALRM's default action
  complete      \* what is_complete() returned to a caller that asked

hvars == <<pc, handles, attrs, attrsBefore, rawIn, raw, instance, ev, decided, ops,
           lastDiscard, deciderEnd, summaryDecided, errText, log, overlaid, runCalls, launched,
           stdout, stderr, exit_code, excMsg, success, ret, flagAtReport, suppressed, escaped>>
tvars == <<sigHandler, alarmLeft, alarmBy, stack, calls, last, stray, prevRuns, killed>>
evars == <<complete>>
vars == <<hvars, tvars, evars>>

\* The locals of one handle call, before the call.
CallLocals ==
  /\ instance = "unset"
  /\ ev = NewDecidedEvent(NoEvent)
  /\ decided = "unbound"
  /\ ops = 0
  /\ lastDiscard = "no"
  /\ deciderEnd = "no"
  /\ summaryDecided = PyNone
  /\ errText = <<>>
  /\ log = <<>>
  /\ overlaid = FALSE
  /\ runCalls = 0
  /\ launched = 0
  /\ stdout = PyNone
  /\ stderr = PyNone
  /\ exit_code = 0
  /\ excMsg = PyNone
  /\ success = "unset"
  /\ ret = "unset"
  /\ flagAtReport = PyNone

\* The Runner after new(): constructed from runneropts o, nothing handled.
IdleRunner(o) ==
  /\ pc = "idle"
  /\ handles = 0
  /\ attrs = NewRunner(o)
  /\ attrsBefore = attrs
  /\ rawIn = NoEvent
  /\ raw = NoEvent
  /\ CallLocals
  /\ suppressed = FALSE
  /\ escaped = FALSE
  /\ complete = "unset"
InitRunner == \E o \in RunnerOpts : IdleRunner(o)

\* --------------------------------------------------------------- handle
\* The texts a decider's exception may carry.
DeciderErrors == {<<"bad policy">>, <<>>}
\* The texts an exception of run() or of Popen may carry.
RunErrors == {<<"boom">>, <<>>}
\* What a command may write.
Outputs == {PyBytes(<<>>), PyBytes(<<"some output">>)}
ErrOutputs == {PyBytes(<<>>), PyBytes(<<"some error">>)}

\* Whether `except Exception` (lines 135, 151, 182) catches an exception.
TryCatches(kind) == kind \in {"Exception", "AttributeError", "TypeError", "NameError", "OSError"}

\* handle is called with a raw event (line 139).
Handle(r) ==
  /\ pc = "idle"
  /\ handles < MaxHandles
  /\ ~escaped
  /\ pc' = "new_decider"
  /\ handles' = handles + 1
  /\ attrsBefore' = attrs
  /\ rawIn' = r
  /\ raw' = r
  /\ instance' = "unset"
  /\ ev' = NewDecidedEvent(NoEvent)
  /\ decided' = "unbound"
  /\ ops' = 0
  /\ lastDiscard' = "no"
  /\ deciderEnd' = "no"
  /\ summaryDecided' = PyNone
  /\ errText' = <<>>
  /\ log' = <<>>
  /\ overlaid' = FALSE
  /\ runCalls' = 0
  /\ launched' = 0
  /\ stdout' = PyNone
  /\ stderr' = PyNone
  /\ exit_code' = 0
  /\ excMsg' = PyNone
  /\ success' = "unset"
  /\ ret' = "unset"
  /\ flagAtReport' = PyNone
  /\ UNCHANGED <<attrs, suppressed, escaped>>
  /\ UNCHANGED <<tvars, evars>>

\* decide_and_prepare_event, line 123: new_decider returns an instance, or
\* logs and returns None when the module or the class cannot be had.
NewDecider(outcome) ==
  /\ pc = "new_decider"
  /\ pc' = "prepare"
  /\ instance' = IF outcome = "ok" THEN "ok" ELSE "none"
  /\ log' = log \o NewDeciderLines(outcome)
  /\ UNCHANGED <<handles, attrs, attrsBefore, rawIn, raw, ev, decided, ops, lastDiscard,
                 deciderEnd, summaryDecided, errText, overlaid, runCalls, launched, stdout, stderr,
                 exit_code, excMsg, success, ret, flagAtReport, suppressed, escaped>>
  /\ UNCHANGED <<tvars, evars>>

\* decide_and_prepare_event, lines 124-132: the environment's keys are added,
\* the DecidedEvent is built (normalizing the caller's dict in place) and the
\* decider is told its runner. With no decider, setattr raises, the except
\* branch of line 136 raises again on None.__module_file__, and handle's
\* except branch finds decided_event unbound.
PrepareEvent ==
  /\ pc = "prepare"
  /\ LET r == Normalize(AddEnvironment(raw)) IN
       /\ raw' = r
       /\ ev' = NewDecidedEvent(r)
       /\ IF instance = "ok"
          THEN /\ pc' = "deciding"
               /\ UNCHANGED <<log, decided, escaped>>
          ELSE IF TryCatches("AttributeError")
          THEN /\ pc' = "after_try"
               /\ log' = log \o HandleErrorLines(decided, r, NoModuleFileError)
               /\ decided' = "none"
               /\ UNCHANGED escaped
          ELSE /\ pc' = "idle"
               /\ escaped' = TRUE
               /\ UNCHANGED <<log, decided>>
  /\ UNCHANGED <<handles, attrs, attrsBefore, rawIn, instance, ops, lastDiscard,
                 deciderEnd, summaryDecided, errText, overlaid, runCalls, launched, stdout, stderr,
                 exit_code, excMsg, success, ret, flagAtReport, suppressed>>
  /\ UNCHANGED <<tvars, evars>>

\* What a decider's step leaves alone.
DeciderFrame ==
  /\ UNCHANGED <<pc, handles, attrs, attrsBefore, rawIn, raw, instance, decided,
                 deciderEnd, summaryDecided, errText, log, overlaid, runCalls, launched, stdout, stderr,
                 exit_code, excMsg, success, ret, flagAtReport, suppressed, escaped>>
  /\ UNCHANGED <<tvars, evars>>

\* The decider sets event.payload (lines 254-256).
DeciderSetPayload(p) ==
  /\ pc = "deciding"
  /\ ops < MaxDeciderOps
  /\ ops' = ops + 1
  /\ ev' = [ev EXCEPT !.payload = p]
  /\ UNCHANGED lastDiscard
  /\ DeciderFrame

\* The decider sets event.summary (lines 262-264).
DeciderSetSummary(t) ==
  /\ pc = "deciding"
  /\ ops < MaxDeciderOps
  /\ ops' = ops + 1
  /\ ev' = [ev EXCEPT !.summary = t]
  /\ UNCHANGED lastDiscard
  /\ DeciderFrame

\* The decider calls event.discard(silently) (lines 292-294).
DeciderDiscard(silently) ==
  /\ pc = "deciding"
  /\ ops < MaxDeciderOps
  /\ ops' = ops + 1
  /\ ev' = Discard(ev, silently)
  /\ lastDiscard' = IF silently THEN "silent" ELSE "loud"
  /\ DeciderFrame

\* event.runneropts is set (lines 270-272).
DeciderSetRunneropts(o) ==
  /\ pc = "deciding"
  /\ ops < MaxDeciderOps
  /\ ops' = ops + 1
  /\ ev' = [ev EXCEPT !.runneropts = o]
  /\ UNCHANGED lastDiscard
  /\ DeciderFrame

\* event.is_heartbeat is set (lines 246-248).
DeciderSetHeartbeat(b) ==
  /\ pc = "deciding"
  /\ ops < MaxDeciderOps
  /\ ops' = ops + 1
  /\ ev' = [ev EXCEPT !.heartbeat = PyBool(b)]
  /\ UNCHANGED lastDiscard
  /\ DeciderFrame

\* decide_and_prepare returns; decide_and_prepare_event returns the event
\* (line 134) and handle binds it (line 141).
DeciderReturn ==
  /\ pc = "deciding"
  /\ pc' = "inspect"
  /\ deciderEnd' = "returned"
  /\ summaryDecided' = ev.summary
  /\ decided' = "event"
  /\ UNCHANGED <<handles, attrs, attrsBefore, rawIn, raw, instance, ev, ops, lastDiscard,
                 errText, log, overlaid, runCalls, launched, stdout, stderr,
                 exit_code, excMsg, success, ret, flagAtReport, suppressed, escaped>>
  /\ UNCHANGED <<tvars, evars>>

\* decide_and_prepare raises: decide_and_prepare_event logs and returns None
\* (lines 135-137), which handle binds (line 141).
DeciderRaise(msg) ==
  /\ pc = "deciding"
  /\ deciderEnd' = "raised"
  /\ summaryDecided' = ev.summary
  /\ errText' = msg
  /\ IF TryCatches("Exception")
     THEN /\ pc' = "inspect"
          /\ log' = log \o DecideErrorLines(raw, msg)
          /\ decided' = "none"
          /\ UNCHANGED escaped
     ELSE /\ pc' = "idle"
          /\ escaped' = TRUE
          /\ UNCHANGED <<log, decided>>
  /\ UNCHANGED <<handles, attrs, attrsBefore, rawIn, raw, instance, ev, ops, lastDiscard,
                 overlaid, runCalls, launched, stdout, stderr,
                 exit_code, excMsg, success, ret, flagAtReport, suppressed>>
  /\ UNCHANGED <<tvars, evars>>

\* handle, lines 142-156: the discard branch, the incomplete branch, and the
\* except branch reached when decided_event is None (None.is_discarded).
Inspect ==
  /\ pc = "inspect"
  /\ IF decided = "none"
     THEN IF TryCatches("AttributeError")
          THEN /\ pc' = "after_try"
               /\ log' = log \o HandleErrorLines(decided, raw, <<"'NoneType' object has no attribute 'is_discarded'">>)
               /\ decided' = "none"
               /\ UNCHANGED <<ev, escaped>>
          ELSE /\ pc' = "idle"
               /\ escaped' = TRUE
               /\ UNCHANGED <<log, decided, ev>>
     ELSE /\ pc' = "after_try"
          /\ UNCHANGED escaped
          /\ IF ev.discarded
             THEN /\ log' = log \o DiscardLines(ev, raw)
                  /\ ev' = IF ~ev.silently
                           THEN [ev EXCEPT !.summary = DiscardSummary(ev, raw)]
                           ELSE ev
                  /\ decided' = AfterDiscard
             ELSE IF ~IsComplete(ev)
             THEN /\ log' = log \o IncompleteLines
                  /\ decided' = AfterIncomplete
                  /\ UNCHANGED ev
             ELSE UNCHANGED <<log, decided, ev>>
  /\ UNCHANGED <<handles, attrs, attrsBefore, rawIn, raw, instance, ops, lastDiscard,
                 deciderEnd, summaryDecided, errText, overlaid, runCalls, launched, stdout, stderr,
                 exit_code, excMsg, success, ret, flagAtReport, suppressed>>
  /\ UNCHANGED <<tvars, evars>>

\* handle, lines 157-158: a decided event's payload is overlaid on the Runner;
\* without a decided event handle returns.
AfterTry ==
  /\ pc = "after_try"
  /\ IF decided = "event"
     THEN /\ pc' = "run"
          /\ attrs' = OverwriteAttributes(attrs, ev.payload.m)
          /\ overlaid' = TRUE
     ELSE /\ pc' = "idle"
          /\ UNCHANGED <<attrs, overlaid>>
  /\ UNCHANGED <<handles, attrsBefore, rawIn, raw, instance, ev, decided, ops, lastDiscard,
                 deciderEnd, summaryDecided, errText, log, runCalls, launched, stdout, stderr,
                 exit_code, excMsg, success, ret, flagAtReport, suppressed, escaped>>
  /\ UNCHANGED <<tvars, evars>>

\* ---------------------------------------------------------- run_decided
\* The command a Runner's run() builds.
Command == <<"notify.sh oncall">>

\* What run_decided's steps leave alone.
RunFrame ==
  /\ UNCHANGED <<handles, attrsBefore, rawIn, raw, instance, ev, decided, ops, lastDiscard,
                 deciderEnd, summaryDecided, errText, overlaid, ret, flagAtReport>>
  /\ UNCHANGED <<tvars, evars>>

\* An exception inside run_decided's try block (lines 182-184).
RunCaught(kind, msg) ==
  IF TryCatches(kind)
  THEN /\ pc' = "report"
       /\ success' = "false"
       /\ excMsg' = PyStr(msg)
       /\ UNCHANGED escaped
  ELSE /\ pc' = "idle"
       /\ escaped' = TRUE
       /\ UNCHANGED <<success, excMsg>>

\* run_decided, lines 174-177: the Runner's run() builds the command. run()
\* is the concrete Runner's code: it may call no_more_logging, return a
\* command, return nothing, or raise. When the overlay has put a value in
\* the instance's "run", calling it raises TypeError.
RunnerRun(outcome, msg, quiet) ==
  /\ pc = "run"
  /\ runCalls' = runCalls + 1
  /\ IF attrs["run"] # Absent
     THEN /\ outcome = "raise" /\ msg = <<>> /\ ~quiet
          /\ RunCaught("TypeError", NotCallableError)
          /\ UNCHANGED <<attrs, suppressed, log>>
     ELSE /\ attrs' = IF quiet THEN NoMoreLogging(attrs) ELSE attrs
          /\ suppressed' = (suppressed \/ quiet)
          /\ CASE outcome = "command" ->
                    /\ msg = <<>>
                    /\ pc' = "popen"
                    /\ log' = log \o <<Line("DEBUG", <<"command is ">> \o Command)>>
                    /\ UNCHANGED <<success, excMsg, escaped>>
               [] outcome = "empty" ->
                    /\ msg = <<>>
                    /\ RunCaught("Exception", NoCommandError)
                    /\ UNCHANGED log
               [] OTHER ->
                    /\ RunCaught("Exception", msg)
                    /\ UNCHANGED log
  /\ UNCHANGED <<launched, stdout, stderr, exit_code>>
  /\ RunFrame

\* run_decided, lines 178-181: the command runs to its end.
Launch(out, err, code) ==
  /\ pc = "popen"
  /\ pc' = "report"
  /\ launched' = launched + 1
  /\ stdout' = out
  /\ stderr' = err
  /\ exit_code' = code
  /\ success' = IF CommandSuccess(code, err) THEN "true" ELSE "false"
  /\ UNCHANGED <<attrs, suppressed, log, runCalls, excMsg, escaped>>
  /\ RunFrame

\* run_decided, line 178: Popen raises.
LaunchFails(msg) ==
  /\ pc = "popen"
  /\ RunCaught("OSError", msg)
  /\ UNCHANGED <<attrs, suppressed, log, runCalls, launched, stdout, stderr, exit_code>>
  /\ RunFrame

\* run_decided, lines 186-198: the outcome is logged and returned; handle
\* returns (line 159).
Report ==
  /\ pc = "report"
  /\ pc' = "idle"
  /\ log' = log \o ReportLines(success = "true", attrs["baseclass_logs_summary"],
                               stdout, stderr, exit_code, excMsg, ev.summary)
  /\ ret' = success
  /\ flagAtReport' = attrs["baseclass_logs_summary"]
  /\ UNCHANGED <<handles, attrs, attrsBefore, rawIn, raw, instance, ev, decided, ops,
                 lastDiscard, deciderEnd, summaryDecided, errText, overlaid, runCalls, launched, stdout,
                 stderr, exit_code, excMsg, success, suppressed, escaped>>
  /\ UNCHANGED <<tvars, evars>>

\* ------------------------------------------------------ the timeout state
\* One call of timeout's wrapper (lines 76-87): its arguments, the line it is
\* at, the handler it saved, and how the wrapped function and the call end.
Frame(msg, seconds) ==
  [msg |-> msg, seconds |-> seconds, pc |-> "install", original |-> "SIG_DFL",
   funcEnd |-> "no", outcome |-> "none", outMsg |-> "", inner |-> FALSE, depth |-> 0,
   id |-> 0, handlerBefore |-> "SIG_DFL", alarmBefore |-> 0, ownFired |-> FALSE]
NoFrame == [Frame("", 0) EXCEPT !.pc = "none"]

\* The process before any wrapped call: SIGALRM has the handler h (the
\* default action, or a handler of the application) and an alarm is due in a
\* seconds (0: none).
IdleSignals(h, a) ==
  /\ sigHandler = h
  /\ alarmLeft = a
  /\ alarmBy = 0
  /\ stack = <<>>
  /\ calls = 0
  /\ last = NoFrame
  /\ stray = ""
  /\ prevRuns = 0
  /\ killed = FALSE
InitSignals == IdleSignals("SIG_DFL", 0)

\* ------------------------------------------------------- specifications
Init == InitRunner /\ InitSignals

Next ==
  \/ \E r \in RawEvents : Handle(r)
  \/ \E o \in {"ok", "ImportError", "Exception"} : NewDecider(o)
  \/ PrepareEvent
  \/ \E p \in Payloads : DeciderSetPayload(p)
  \/ \E t \in Summaries : DeciderSetSummary(t)
  \/ \E b \in BOOLEAN : DeciderDiscard(b)
  \/ DeciderReturn
  \/ \E m \in DeciderErrors : DeciderRaise(m)
  \/ Inspect
  \/ AfterTry
  \/ \E o \in {"command", "empty", "raise"}, m \in RunErrors, q \in BOOLEAN : RunnerRun(o, m, q)
  \/ \E out \in Outputs, err \in ErrOutputs, code \in 0..MaxExit : Launch(out, err, code)
  \/ \E m \in RunErrors : LaunchFails(m)
  \/ Report

Spec == Init /\ [][Next]_vars

\* ------------------------------------------------------- properties
\* A handle call has ended.
Ended == pc = "idle" /\ handles > 0
Infos == Count(log, "INFO")
Criticals == Count(log, "CRITICAL")
\* The lines of the current call at a level.
LinesAt(level) == {log[i] : i \in {j \in 1..Len(log) : log[j].level = level}}
\* The payload and the summary the decider may set besides discarding.
OncallPayload == DictPayload([NoAttrs EXCEPT !["contact"] = PyStr(<<"oncall">>)])
PagingSummary == PyStr(<<"CPU CRIT -> paging oncall">>)

\* C1: whenever decide_and_prepare has returned with the event discarded,
\* handle has not invoked run() and has launched no command, at any point of
\* the call, whatever payload and summary the decider set.
C1_DiscardedNeverRuns ==
  (deciderEnd = "returned" /\ ev.discarded) =>
    (runCalls = 0 /\ launched = 0 /\ pc \notin {"run", "popen", "report"})
\* A call ended whose decider set a payload and a summary and then discarded.
C1_Witness ==
  /\ Ended /\ deciderEnd = "returned" /\ ev.discarded
  /\ ev.payload = OncallPayload /\ summaryDecided = PagingSummary

\* C2: when the decider raises, the call logs exactly one CRITICAL line, which
\* names the raw event and the error text, run() is not invoked, no command
\* is launched and no exception leaves handle.
C2_DeciderRaiseDropsEvent ==
  (Ended /\ deciderEnd = "raised") =>
    /\ Criticals = 1
    /\ \A l \in LinesAt("CRITICAL") :
         Contains(l.msg, StrOfDict(raw)) /\ Contains(l.msg, errText)
    /\ runCalls = 0 /\ launched = 0 /\ ~overlaid
    /\ ~escaped
\* A call ended whose decider worked on the event and then raised.
C2_Witness ==
  Ended /\ deciderEnd = "raised" /\ errText = <<"bad policy">> /\ ops > 0 /\ ~escaped

\* C3: when the decider's discard call is discard() or discard(True), the
\* call logs no INFO and no CRITICAL line and runs nothing, also when the
\* discarded event has no payload.
C3_SilentDiscardLogsNothing ==
  (deciderEnd = "returned" /\ lastDiscard = "silent") =>
    (Infos = 0 /\ Criticals = 0 /\ runCalls = 0 /\ launched = 0)
\* A call ended that discarded silently an event without payload.
C3_Witness ==
  Ended /\ deciderEnd = "returned" /\ lastDiscard = "silent" /\ ev.payload.none

\* C4: when the decider's discard call is discard(False), the call logs exactly
\* one INFO line and no CRITICAL line, the line carries the summary, or the
\* string form of the raw event when the summary is empty, and nothing runs.
C4_LoudDiscardLogsSummary ==
  (Ended /\ deciderEnd = "returned" /\ lastDiscard = "loud") =>
    /\ Infos = 1 /\ Criticals = 0
    /\ \A l \in LinesAt("INFO") :
         IF Truthy(summaryDecided)
         THEN l.msg = <<"discarded: ">> \o summaryDecided.s
         ELSE l.msg = <<"discarded: ">> \o StrOfDict(raw)
    /\ runCalls = 0 /\ launched = 0
\* A call ended that discarded non-silently an event whose summary is empty.
C4_Witness ==
  Ended /\ deciderEnd = "returned" /\ lastDiscard = "loud" /\ summaryDecided = PyStr(<<>>)

\* C5: when the decider returns an event that is neither discarded nor
\* complete (payload or summary is None), the call logs exactly one CRITICAL
\* line, overlays nothing, does not invoke run(), launches nothing and
\* returns without raising.
C5_IncompleteDropped ==
  (Ended /\ deciderEnd = "returned" /\ ~ev.discarded
     /\ (ev.payload.none \/ ev.summary = PyNone)) =>
    /\ Criticals = 1 /\ Infos = 0
    /\ ~overlaid /\ attrs = attrsBefore
    /\ runCalls = 0 /\ launched = 0
    /\ ~escaped
\* A call ended whose event has a payload and no summary.
C5_Witness ==
  /\ Ended /\ deciderEnd = "returned" /\ ~ev.discarded
  /\ ev.payload = OncallPayload /\ ev.summary = PyNone

\* C6: run() is invoked only after the overlay, and when it is about to be
\* invoked every payload key that named an attribute of the Runner holds the
\* payload's value, every other payload key is still no attribute, and the
\* Runner's attribute names are those it had before.
C6_OverlayOnlyExistingAttributes ==
  /\ runCalls > 0 => overlaid
  /\ (pc = "run" /\ runCalls = 0) =>
       /\ overlaid /\ ~ev.discarded /\ ~ev.payload.none /\ ev.summary # PyNone
       /\ \A k \in AttrKeys :
            ev.payload.m[k] # Absent =>
              IF HasAttr(attrsBefore, k)
              THEN attrs[k] = ev.payload.m[k]
              ELSE attrs[k] = Absent
       /\ AttrNames(attrs) = AttrNames(attrsBefore)
\* run() is about to be invoked after a payload with a known key (contact)
\* and an unknown key (colour) was overlaid.
C6_Witness ==
  /\ pc = "run" /\ runCalls = 0
  /\ ev.payload.m["contact"] = PyStr(<<"oncall">>) /\ ev.payload.m["colour"] # Absent
  /\ attrsBefore["contact"] = PyStr(<<"default">>)
  /\ attrs["contact"] = PyStr(<<"oncall">>)

\* C7: when the command exits with code 0, run_decided returns True, whatever
\* the command wrote to stderr, and unless baseclass summary logging is
\* suppressed it logs exactly one INFO line, the summary, and no CRITICAL line.
C7_ExitZeroSucceeds ==
  (Ended /\ launched = 1 /\ exit_code = 0) =>
    /\ ret = "true"
    /\ (~suppressed \/ Truthy(flagAtReport)) =>
         /\ Infos = 1 /\ Criticals = 0
         /\ \A l \in LinesAt("INFO") : l.msg = Format(ev.summary)
\* A command that wrote to stderr and exited 0, logging not suppressed.
C7_Witness ==
  /\ Ended /\ launched = 1 /\ exit_code = 0 /\ Truthy(stderr)
  /\ ~suppressed /\ ret = "true"

\* C8 (as claimed): when the command exits non-zero, run_decided returns
\* False and logs exactly one CRITICAL line that contains the exit code,
\* stdout, stderr and the summary. Stated for a Runner whose baseclass
\* logging is enabled; the code's line for a command that wrote to stderr
\* (line 193) has no exit code.
C8_NonZeroExitLineHasExitCode ==
  (Ended /\ launched = 1 /\ exit_code # 0 /\ Truthy(flagAtReport)) =>
    /\ ret = "false"
    /\ Criticals = 1
    /\ \A l \in LinesAt("CRITICAL") :
         /\ Contains(l.msg, <<", exitcode ">> \o IntText(exit_code))
         /\ Contains(l.msg, Format(OrEmpty(stdout)))
         /\ Contains(l.msg, Format(OrEmpty(stderr)))
         /\ Contains(l.msg, Format(ev.summary))

\* C9 (as claimed): once no_more_logging has been called and the flag is
\* off, run_decided logs no INFO and no CRITICAL line, whatever the outcome.
\* The code's lines 193 and 195 do not look at the flag.
C9_SuppressedLogsNothing ==
  (Ended /\ ret # "unset" /\ suppressed /\ ~Truthy(flagAtReport)) =>
    (Infos = 0 /\ Criticals = 0)

\* ------------------------------------------------------------- timeout
\* The error_message arguments of the wrappers.
Messages == {"Timeout", "connect timed out"}

Top == stack[Len(stack)]
SetTop(f) == [stack EXCEPT ![Len(stack)] = f]
Running == ~killed /\ stray = ""

\* The stack after its innermost wrapper call ended as frame f: a result
\* lets the calling function go on; an exception is raised in the calling
\* function (line 83 of the caller's wrapper), which ends it.
EndFrame(f) ==
  LET rest == SubSeq(stack, 1, Len(stack) - 1) IN
    IF rest = <<>> \/ f.outcome = "result" THEN rest
    ELSE [rest EXCEPT ![Len(rest)] =
            [@ EXCEPT !.pc = "restore",
                      !.funcEnd = IF f.outcome = "timeout" THEN "abandoned" ELSE "raised",
                      !.outcome = f.outcome,
                      !.outMsg = f.outMsg]]

\* What the timeout steps leave alone.
TimeoutFrame == UNCHANGED <<hvars, evars>>

\* A function wrapped by timeout(seconds, msg) is called (line 76), by the
\* program or by a wrapped function that is running.
Enter(msg, seconds) ==
  /\ Running
  /\ calls < MaxCalls
  /\ Len(stack) < MaxDepth
  /\ IF stack = <<>> THEN TRUE ELSE Top.pc = "call"
  /\ calls' = calls + 1
  /\ stack' = (IF stack = <<>> THEN stack ELSE SetTop([Top EXCEPT !.inner = TRUE]))
                \o <<[Frame(msg, seconds) EXCEPT !.depth = Len(stack) + 1,
                                                  !.id = calls + 1,
                                                  !.handlerBefore = sigHandler,
                                                  !.alarmBefore = alarmLeft]>>
  /\ UNCHANGED <<sigHandler, alarmLeft, alarmBy, last, stray, prevRuns, killed>>
  /\ TimeoutFrame

\* Line 80: the wrapper's handler is installed, the old one kept.
Install ==
  /\ Running /\ stack # <<>> /\ Top.pc = "install"
  /\ stack' = SetTop([Top EXCEPT !.pc = "arm", !.original = sigHandler])
  /\ sigHandler' = Top.msg
  /\ UNCHANGED <<alarmLeft, alarmBy, calls, last, stray, prevRuns, killed>>
  /\ TimeoutFrame

\* Line 81: the alarm is set, replacing any alarm that was pending.
Arm ==
  /\ Running /\ stack # <<>> /\ Top.pc = "arm"
  /\ stack' = SetTop([Top EXCEPT !.pc = "call"])
  /\ alarmLeft' = Top.seconds
  /\ alarmBy' = Top.id
  /\ UNCHANGED <<sigHandler, calls, last, stray, prevRuns, killed>>
  /\ TimeoutFrame

\* Line 83: the wrapped function returns its result.
FuncReturn ==
  /\ Running /\ stack # <<>> /\ Top.pc = "call"
  /\ stack' = SetTop([Top EXCEPT !.pc = "restore", !.funcEnd = "returned", !.outcome = "result"])
  /\ UNCHANGED <<sigHandler, alarmLeft, alarmBy, calls, last, stray, prevRuns, killed>>
  /\ TimeoutFrame

\* Line 83: the wrapped function raises an exception of its own.
FuncRaise ==
  /\ Running /\ stack # <<>> /\ Top.pc = "call"
  /\ stack' = SetTop([Top EXCEPT !.pc = "restore", !.funcEnd = "raised", !.outcome = "own"])
  /\ UNCHANGED <<sigHandler, alarmLeft, alarmBy, calls, last, stray, prevRuns, killed>>
  /\ TimeoutFrame

\* Line 85: the kept handler is installed again.
Restore ==
  /\ Running /\ stack # <<>> /\ Top.pc = "restore"
  /\ stack' = SetTop([Top EXCEPT !.pc = "cancel"])
  /\ sigHandler' = Top.original
  /\ UNCHANGED <<alarmLeft, alarmBy, calls, last, stray, prevRuns, killed>>
  /\ TimeoutFrame

\* Faulty variant of line 86: the alarm is left pending.
AlarmAfterCancelKept(a) == a
\* The seconds left on the alarm after signal.alarm(0) (line 86).
AlarmAfterCancel(a) == 0

\* Line 86: the pending alarm is cancelled.
Cancel ==
  /\ Running /\ stack # <<>> /\ Top.pc = "cancel"
  /\ stack' = SetTop([Top EXCEPT !.pc = "exit"])
  /\ alarmLeft' = AlarmAfterCancel(alarmLeft)
  /\ alarmBy' = IF alarmLeft' = 0 THEN 0 ELSE alarmBy
  /\ UNCHANGED <<sigHandler, calls, last, stray, prevRuns, killed>>
  /\ TimeoutFrame

\* Line 87, or the end of the finally block: the wrapper returns the result
\* or lets the exception go on.
Exit ==
  /\ Running /\ stack # <<>> /\ Top.pc = "exit"
  /\ last' = [Top EXCEPT !.pc = "done"]
  /\ stack' = EndFrame(Top)
  /\ UNCHANGED <<sigHandler, alarmLeft, alarmBy, calls, stray, prevRuns, killed>>
  /\ TimeoutFrame

\* A second passes and the alarm is not yet due.
Tick ==
  /\ Running
  /\ alarmLeft > 1
  /\ alarmLeft' = alarmLeft - 1
  /\ UNCHANGED alarmBy
  /\ UNCHANGED <<sigHandler, stack, calls, last, stray, prevRuns, killed>>
  /\ TimeoutFrame

\* The alarm is due: SIGALRM is raised. The default action ends the process;
\* the application's own handler runs and returns; a wrapper's handler
\* (lines 77-78) raises RunnerTimeoutError(msg) in the code that is running:
\* inside the wrapped function it ends the function and the finally block
\* runs; in the wrapper outside the try block, or inside the finally block,
\* it ends the wrapper there, the rest of the cleanup not run.
Fire ==
  /\ Running
  /\ alarmLeft = 1
  /\ alarmLeft' = 0
  /\ alarmBy' = 0
  /\ CASE sigHandler = "SIG_DFL" ->
            /\ killed' = TRUE
            /\ UNCHANGED <<stack, last, stray, prevRuns>>
       [] sigHandler = "prev" ->
            /\ prevRuns' = prevRuns + 1
            /\ UNCHANGED <<stack, last, stray, killed>>
       [] OTHER ->
            /\ UNCHANGED <<prevRuns, killed>>
            /\ IF stack = <<>>
               THEN /\ stray' = sigHandler
                    /\ UNCHANGED <<stack, last>>
               ELSE IF Top.pc = "call"
               THEN /\ stack' = SetTop([Top EXCEPT !.pc = "restore", !.funcEnd = "abandoned",
                                                   !.outcome = "timeout", !.outMsg = sigHandler,
                                                   !.ownFired = (alarmBy = Top.id)])
                    /\ UNCHANGED <<last, stray>>
               ELSE LET f == [Top EXCEPT !.outcome = "timeout", !.outMsg = sigHandler,
                                         !.ownFired = (alarmBy = Top.id)] IN
                      /\ last' = [f EXCEPT !.pc = "done"]
                      /\ stack' = EndFrame(f)
                      /\ UNCHANGED stray
  /\ UNCHANGED <<sigHandler, calls>>
  /\ TimeoutFrame

\* The process before any wrapped call, with the handler and the alarm the
\* application may have set.
InitTimeout ==
  /\ IdleRunner(NoAttrs)
  /\ \E h \in {"SIG_DFL", "prev"}, a \in {0, MaxSeconds} : IdleSignals(h, a)

NextTimeout ==
  \/ \E m \in Messages, n \in 1..MaxSeconds : Enter(m, n)
  \/ Install
  \/ Arm
  \/ FuncReturn
  \/ FuncRaise
  \/ Restore
  \/ Cancel
  \/ Exit
  \/ Tick
  \/ Fire

SpecTimeout == InitTimeout /\ [][NextTimeout]_vars

\* C10 (as claimed): a wrapped call that calls no other wrapped function ends
\* with RunnerTimeoutError(error_message) when its function was still running
\* at the deadline, with the function's result when the function returned
\* before the deadline, and with the function's exception when it raised
\* before the deadline. The code keeps the handler and the alarm after the
\* function has ended, until lines 85-86 have run.
C10_TimeoutOnlyOnOverrun ==
  (last.pc = "done" /\ last.depth = 1 /\ ~last.inner) =>
    /\ last.funcEnd = "abandoned" => (last.outcome = "timeout" /\ last.outMsg = last.msg)
    /\ last.funcEnd = "returned" => last.outcome = "result"
    /\ last.funcEnd = "raised" => last.outcome = "own"

\* C11 (as claimed): when a wrapped call of the program has ended, SIGALRM has
\* the handler it had before the call, and an alarm that was pending before
\* the call, due later than the call's own deadline, is pending again. The
\* code replaces the pending alarm in line 81 and ends with alarm(0) in line
\* 86, and its handler stays installed when the alarm is raised before line 85.
C11_HandlerAndAlarmAsBefore ==
  (stack = <<>> /\ last.pc = "done" /\ ~killed) =>
    /\ sigHandler = last.handlerBefore
    /\ last.alarmBefore > last.seconds => alarmLeft > 0

\* A wrapped function is called by the program, no wrapped call running.
EnterAlone(msg, seconds) ==
  /\ stack = <<>>
  /\ Enter(msg, seconds)

\* The program calls wrapped functions one after the other, never one inside
\* another.
NextSequence ==
  \/ \E m \in Messages, n \in 1..MaxSeconds : EnterAlone(m, n)
  \/ Install
  \/ Arm
  \/ FuncReturn
  \/ FuncRaise
  \/ Restore
  \/ Cancel
  \/ Exit
  \/ Tick
  \/ Fire

SpecSequence == InitTimeout /\ [][NextSequence]_vars

\* C12: with wrapped calls made one after the other, a pending alarm was set
\* by the application or by the call that is running, never by a call that
\* has ended; and a call after the first whose own alarm did not become due
\* before it ended does not end with RunnerTimeoutError.
C12_NoAlarmOutlivesItsCall ==
  /\ alarmLeft > 0 => (alarmBy = 0 \/ \E i \in 1..Len(stack) : stack[i].id = alarmBy)
  /\ (last.pc = "done" /\ last.id >= 2 /\ ~last.ownFired) => last.outcome # "timeout"
  /\ \A i \in 1..Len(stack) :
       (stack[i].id >= 2 /\ ~stack[i].ownFired) => stack[i].outcome # "timeout"

\* The second call has returned its function's result, no alarm pending,
\* after the first call was ended by its own alarm inside the cleanup, its
\* handler left installed.
C12_Witness ==
  /\ stack = <<>> /\ last.pc = "done" /\ last.id = 2
  /\ last.outcome = "result"
  /\ sigHandler \in Messages
  /\ alarmLeft = 0

\* C18 (as claimed): a wrapped call made while another one is running is
\* refused: it installs no handler and sets no alarm, so the alarm of the
\* outer call stays the pending one. The code has no such test.
C18_NestedCallRefused ==
  \A i \in 2..Len(stack) : stack[i].pc = "install"

\* ------------------------------------------- a DecidedEvent on its own
\* The values a raw event's state may have: digit strings, with and without
\* leading zeros, other strings, the empty string, a signed number, an int,
\* or no such key.
EventValues ==
  { PyStr(<<"2">>), PyStr(<<"0", "7">>), PyStr(<<"0", "0">>), PyStr(<<"1", "0">>),
    PyStr(<<"CRIT">>), PyStr(<<>>), PyStr(<<"-", "1">>), PyStr(<<"2", "a">>),
    PyInt(1), Absent }
\* The raw events a DecidedEvent is constructed from.
EventInputs ==
  { [NoEvent EXCEPT !["state"] = v, !["output"] = w] :
      v \in EventValues, w \in {PyStr(<<"CRIT">>), PyStr(<<"0", "3">>)} }

\* Before any DecidedEvent exists.
InitEvent == IdleRunner(NoAttrs) /\ InitSignals

\* DecidedEvent(r) (lines 227-236): the digit strings of r become ints, in
\* r itself, and the event starts with str(r) as its summary.
Construct(r) ==
  /\ pc = "idle"
  /\ pc' = "deciding"
  /\ rawIn' = r
  /\ raw' = Normalize(r)
  /\ ev' = NewDecidedEvent(raw')
  /\ UNCHANGED <<handles, attrs, attrsBefore, instance, decided, ops, lastDiscard,
                 deciderEnd, summaryDecided, errText, log, overlaid, runCalls, launched,
                 stdout, stderr, exit_code, excMsg, success, ret, flagAtReport,
                 suppressed, escaped>>
  /\ UNCHANGED <<tvars, evars>>

\* The event's holder calls event.is_complete() (lines 287-290, which replace
\* the equal definition of lines 274-277) and keeps the answer.
AskIsComplete ==
  /\ pc = "deciding"
  /\ pc' = "asked"
  /\ complete' = IF IsComplete(ev) THEN "yes" ELSE "no"
  /\ UNCHANGED <<handles, attrs, attrsBefore, rawIn, raw, instance, ev, decided, ops,
                 lastDiscard, deciderEnd, summaryDecided, errText, log, overlaid, runCalls,
                 launched, stdout, stderr, exit_code, excMsg, success, ret, flagAtReport,
                 suppressed, escaped>>
  /\ UNCHANGED tvars

\* Every operation of a DecidedEvent, in any order.
NextEvent ==
  \/ \E r \in EventInputs : Construct(r)
  \/ \E p \in Payloads : DeciderSetPayload(p)
  \/ \E t \in Summaries : DeciderSetSummary(t)
  \/ \E o \in RunnerOpts : DeciderSetRunneropts(o)
  \/ \E b \in BOOLEAN : DeciderSetHeartbeat(b)
  \/ \E b \in BOOLEAN : DeciderDiscard(b)
  \/ AskIsComplete

SpecEvent == InitEvent /\ [][NextEvent]_vars

\* C13: after discard(True) (the default) the event is discarded, silently;
\* after discard(False) it is discarded, not silently; and whatever is done
\* to the event afterwards (payload, summary, runneropts, is_heartbeat set,
\* discard called again) it stays discarded, with the flag of the last discard.
C13_DiscardIsFinal ==
  /\ lastDiscard = "silent" => (ev.discarded /\ ev.silently)
  /\ lastDiscard = "loud" => (ev.discarded /\ ~ev.silently)
  /\ lastDiscard = "no" => ~ev.discarded

\* discard(False), and is_heartbeat, runneropts and payload set.
C13_Witness ==
  /\ ev.discarded /\ ~ev.silently
  /\ ev.heartbeat # Absent
  /\ ev.runneropts # NoAttrs

\* C14: is_complete() answers True exactly when the payload is not None and
\* the summary is not None; an event nothing was done to has the text of its
\* normalized raw event as summary, no payload, and is not complete.
C14_CompleteIffPayloadAndSummary ==
  /\ pc = "asked" =>
       (complete = "yes" <=> (~ev.payload.none /\ ev.summary # PyNone))
  /\ (pc \in {"deciding", "asked"} /\ ops = 0) =>
       /\ ev.summary = PyStr(StrOfDict(raw))
       /\ ev.summary # PyNone
       /\ ev.payload = NonePayload
       /\ pc = "asked" => complete = "no"

\* is_complete() has answered True for an event with payload and summary set.
C14_Witness ==
  /\ pc = "asked" /\ complete = "yes"
  /\ ev.payload = OncallPayload
  /\ ev.summary = PagingSummary

\* s without its leading zeros (the last character stays).
RECURSIVE StripZeros(_)
StripZeros(s) == IF Len(s) > 1 /\ s[1] = "0" THEN StripZeros(Tail(s)) ELSE s

C16_OneLinePerEvent ==
  ( /\ Ended /\ ~escaped
    /\ ~suppressed /\ Truthy(attrs["baseclass_logs_summary"])
    /\ ~(deciderEnd = "returned" /\ ev.discarded /\ ev.silently) ) =>
    Infos + Criticals = 1

\* C17 (as claimed): when run() raises, returns no command, or the launch
\* raises, run_decided returns False, has read no output of a command, and
\* has logged exactly one CRITICAL line, which holds the exception's text and
\* the summary. The code takes an exception whose text is empty for no
\* exception (line 194) and then logs only if the flag is on (line 196).
C17_RunFailureIsReported ==
  (Ended /\ ret # "unset" /\ excMsg # PyNone) =>
    /\ ret = "false"
    /\ stdout = PyNone /\ stderr = PyNone
    /\ Criticals = 1
    /\ \A l \in LinesAt("CRITICAL") :
         /\ Contains(l.msg, excMsg.s)
         /\ Contains(l.msg, Format(ev.summary))

\* C19 (as claimed): once no_more_logging has been called the flag
\* baseclass_logs_summary is False for the rest of the Runner's life. A later
\* event's payload with the key baseclass_logs_summary sets it again
\* (lines 163-165).
C19_SuppressionIsPermanent ==
  suppressed => attrs["baseclass_logs_summary"] = PyBool(FALSE)

\* C20: as long as handle has not overlaid a payload the Runner's attributes
\* are those it had when handle was called, and handle overlays the payload
\* only of an event the decider returned complete and not discarded: a call
\* that ends without running the event leaves every attribute as it was.
C20_UnexecutedLeavesRunner ==
  /\ ~overlaid => attrs = attrsBefore
  /\ overlaid => (deciderEnd = "returned" /\ IsComplete(ev) /\ ~ev.discarded)
  /\ (Ended /\ runCalls = 0) => ~overlaid

\* The decider set a payload that names an attribute of the Runner and then
\* raised: the call has ended and the attribute is as before.
C20_Witness ==
  /\ Ended /\ deciderEnd = "raised"
  /\ ev.payload = OncallPayload
  /\ attrsBefore["contact"] = PyStr(<<"default">>)
  /\ attrs = attrsBefore

====
